---------------------------- MODULE Spec2Model ----------------------------
(***************************************************************************)
(* Model of arim.im.fermat_solver: FermatPath (ordered point-set / speed   *)
(* sequences), Rays (times and per-interface point indices) and the        *)
(* memoized recursive FermatSolver.                                        *)
(*                                                                         *)
(* Conventions.  Arrays are records [shape, data] (index arrays also carry *)
(* their dtype); data is a function over 0-based index tuples, as in the   *)
(* source.  A point-set is the tagged value <<"points", k>> (k names the   *)
(* object, so equality is identity), a speed is <<"speed", v>>.  A time is *)
(* an exact rational number of TimeDen-ths.                                *)
(***************************************************************************)
EXTENDS Integers, Sequences, FiniteSets, TLC

VARIABLES
    \* ---- FermatSolver instance (fermat_solver.py:570-697)
    paths,              \* self.paths
    dtype_indices,      \* self.dtype_indices
    res,                \* self.res: path -> Rays
    cached_distance,    \* self.cached_distance: (points1, points2) -> matrix
    cached_result,      \* self.cached_result: path -> Rays
    num_minimization,   \* self.num_minimization
    num_euc_distance,   \* self.num_euc_distance
    \* ---- control state of the running call
    call,               \* top-level method being executed, or "idle"
    pending,            \* paths the loop of solve_no_clean has not reached yet
    stack,              \* activation records of _solve, innermost last
    outcome,            \* how the last top-level call ended
    ncalls,             \* number of top-level calls made so far
    \* ---- history
    next_id,            \* identity of the next Rays object constructed
    min_log,            \* paths for which find_minimum_times was invoked since
                        \* the caches were last cleared, in order
    dist_log,           \* keys for which distance_pairwise was invoked since the
                        \* caches were last cleared, in order
    solved,             \* path -> identity of the Rays that _solve(path) last
                        \* returned in the current cache lifetime
    \* ---- pure-function harnesses
    fx                  \* input and result of the function under study

vars == <<paths, dtype_indices, res, cached_distance, cached_result,
          num_minimization, num_euc_distance, call, pending, stack, outcome,
          ncalls, next_id, min_log, dist_log, solved, fx>>

solverVars == <<paths, dtype_indices, res, cached_distance, cached_result,
                num_minimization, num_euc_distance, call, pending, stack,
                outcome, ncalls, next_id, min_log, dist_log, solved>>

-----------------------------------------------------------------------------
(* Bounds of the model.                                                    *)

\* largest number of interior point-sets of a requested path
MaxInterior == 2

\* largest number of paths registered with one solver
MaxPaths == 2

\* largest number of top-level calls (solve, solve_no_clean) on one solver
MaxCalls == 2

-----------------------------------------------------------------------------
(* The world: point-sets, speeds, index types.                             *)

\* Coordinates of the points of each point-set (collinear points, so that
\* the Euclidean distance is the absolute difference).  Coords[k] lists the
\* points of the point-set <<"points", k>>.
Coords == << <<0, 4>>, <<1, 7, 3>>, <<5, 2>> >>

Points(k) == <<"points", k>>

Speed(v) == <<"speed", v>>

PointSets == {Points(k) : k \in DOMAIN Coords}

SpeedValues == {1, 2}

Speeds == {Speed(v) : v \in SpeedValues}

\* len(points)
NumPoints(P) == Len(Coords[P[2]])

RECURSIVE Product(_)
Product(S) ==
    IF S = {} THEN 1
    ELSE LET x == CHOOSE y \in S : TRUE IN x * Product(S \ {x})

\* Times are counted in units of 1/TimeDen so that distance / speed is exact.
TimeDen == Product(SpeedValues)

Abs(x) == IF x < 0 THEN -x ELSE x

RECURSIVE Pow2(_)
Pow2(w) == IF w = 0 THEN 1 ELSE 2 * Pow2(w - 1)

\* Index types a solver may be given: two unsigned types of different width
\* (the narrow one cannot hold the index 2) and a signed one.
DTypes == { [kind |-> "u", width |-> 1],
            [kind |-> "u", width |-> 2],
            [kind |-> "i", width |-> 3] }

\* Conversion of an integer to an index type: silent wrap-around, which is
\* what an array assignment does.
Cast(x, dtype) ==
    IF dtype.kind = "u" THEN x % Pow2(dtype.width)
    ELSE ((x + Pow2(dtype.width - 1)) % Pow2(dtype.width)) - Pow2(dtype.width - 1)


-----------------------------------------------------------------------------
(* Results of operations that may raise.                                   *)

Ok(v) == [ok |-> TRUE, val |-> v, err |-> "none"]

Raise(e) == [ok |-> FALSE, val |-> <<>>, err |-> e]

-----------------------------------------------------------------------------
(* FermatPath                                                              *)

\* FermatPath.__new__: the sequence must have an odd length of at least 3.
FermatPathNew(sequence) ==
    IF Len(sequence) % 2 = 0 \/ Len(sequence) < 3
    THEN Raise("ValueError")
    ELSE Ok(sequence)

\* FermatPath.points: the elements at even (0-based) positions.
PathPoints(path) == [t \in 1..((Len(path) + 1) \div 2) |-> path[2 * t - 1]]

\* FermatPath.num_points_sets
num_points_sets(path) == Len(path) \div 2 + 1

\* FermatPath.__add__
PathAdd(head, tail) ==
    IF head[Len(head)] # tail[1]
    THEN Raise("ValueError")
    ELSE FermatPathNew(head \o SubSeq(tail, 2, Len(tail)))

\* split_head with the tail starting one element too far
split_head_shifted(path) ==
    IF Len(path) < 5
    THEN Raise("ValueError")
    ELSE LET h == FermatPathNew(SubSeq(path, 1, 3))
             t == FermatPathNew(SubSeq(path, 4, Len(path)))
         IN  IF h.ok /\ t.ok THEN Ok(<<h.val, t.val>>) ELSE Raise("ValueError")

\* FermatPath.split_head: (self[:3], self[2:])
split_head(path) ==
    IF Len(path) < 5
    THEN Raise("ValueError")
    ELSE LET h == FermatPathNew(SubSeq(path, 1, 3))
             t == FermatPathNew(SubSeq(path, 3, Len(path)))
         IN  IF h.ok /\ t.ok THEN Ok(<<h.val, t.val>>) ELSE Raise("ValueError")

\* FermatPath.split_queue: (self[:-2], self[-3:])
split_queue(path) ==
    IF Len(path) < 5
    THEN Raise("ValueError")
    ELSE LET h == FermatPathNew(SubSeq(path, 1, Len(path) - 2))
             t == FermatPathNew(SubSeq(path, Len(path) - 2, Len(path)))
         IN  IF h.ok /\ t.ok THEN Ok(<<h.val, t.val>>) ELSE Raise("ValueError")

\* zip(a, b, c) stops at the shortest of its arguments.
Min3(a, b, c) ==
    LET ab == IF a < b THEN a ELSE b
    IN  IF ab < c THEN ab ELSE c

\* material.velocity(mode): the speed of the mode in the material.
velocity(material, mode) == material[mode]

RECURSIVE path_pieces(_, _)
path_pieces(path, t) ==
    IF t = 0 THEN <<>>
    ELSE path_pieces(path, t - 1)
         \o << path.interfaces[t].points,
               Speed(velocity(path.materials[t], path.modes[t])) >>

\* FermatPath.from_path
from_path(path) ==
    LET k == Min3(Len(path.interfaces), Len(path.materials), Len(path.modes))
    IN  IF Len(path.interfaces) = 0
        THEN Raise("IndexError")
        ELSE FermatPathNew(path_pieces(path, k)
                           \o << path.interfaces[Len(path.interfaces)].points >>)

-----------------------------------------------------------------------------
(* Arrays                                                                  *)

Idx2(n, m) == (0..(n - 1)) \X (0..(m - 1))

Idx3(d, n, m) == (0..(d - 1)) \X (0..(n - 1)) \X (0..(m - 1))

\* a float matrix of shape (n, m)
Matrix(n, m, f(_, _)) ==
    [shape |-> <<n, m>>, data |-> [ij \in Idx2(n, m) |-> f(ij[1], ij[2])]]

\* an index matrix of shape (n, m)
IndexMatrix(n, m, dtype, f(_, _)) ==
    [shape |-> <<n, m>>, dtype |-> dtype,
     data |-> [ij \in Idx2(n, m) |-> f(ij[1], ij[2])]]

\* an index array of shape (d, n, m)
IndexArray(d, n, m, dtype, f(_, _, _)) ==
    [shape |-> <<d, n, m>>, dtype |-> dtype,
     data |-> [kij \in Idx3(d, n, m) |-> f(kij[1], kij[2], kij[3])]]

\* arr.T
Transpose(arr) ==
    LET T(i, j) == arr.data[<<j, i>>]
    IN  Matrix(arr.shape[2], arr.shape[1], T)

-----------------------------------------------------------------------------
(* Rays                                                                    *)

\* Rays.make_indices: layer 0 holds the start index, the last layer the end
\* index, the layers between them the interior indices; the result has the
\* dtype of interior_indices, so the values written are converted to it.
make_indices(interior_indices) ==
    LET dm2 == interior_indices.shape[1]
        n == interior_indices.shape[2]
        m == interior_indices.shape[3]
        F(k, i, j) ==
            IF k = 0 THEN Cast(i, interior_indices.dtype)
            ELSE IF k = dm2 + 1 THEN Cast(j, interior_indices.dtype)
            ELSE interior_indices.data[<<k - 1, i, j>>]
    IN  IndexArray(dm2 + 2, n, m, interior_indices.dtype, F)

\* Rays.__init__; id is the identity of the object constructed.
RaysInit(times, interior_indices, fermat_path, id) ==
    LET pts == PathPoints(fermat_path)
    IN  IF \/ times.shape # SubSeq(interior_indices.shape, 2, 3)
           \/ times.shape # <<NumPoints(pts[1]), NumPoints(pts[Len(pts)])>>
           \/ num_points_sets(fermat_path) # interior_indices.shape[1] + 2
        THEN Raise("AssertionError")
        ELSE IF interior_indices.dtype.kind # "u"
        THEN Raise("TypeError")
        ELSE Ok([id |-> id,
                 times |-> times,
                 indices |-> make_indices(interior_indices),
                 fermat_path |-> fermat_path])

\* Rays.make_rays_two_interfaces
make_rays_two_interfaces(times, path, dtype, id) ==
    IF num_points_sets(path) # 2
    THEN Raise("ValueError")
    ELSE LET n == NumPoints(PathPoints(path)[1])
             m == NumPoints(PathPoints(path)[2])
             Z(k, i, j) == 0
         IN  RaysInit(times, IndexArray(0, n, m, dtype, Z), path, id)

\* Rays.interior_indices: indices[1:-1, ...]
interior_indices_of(rays) ==
    LET I(k, i, j) == rays.indices.data[<<k + 1, i, j>>]
    IN  IndexArray(rays.indices.shape[1] - 2, rays.indices.shape[2],
                   rays.indices.shape[3], rays.indices.dtype, I)

\* _expand_rays(interior_indices, indices_new_interface, expanded_indices,
\* n, m, p, d): the gather loop of the compiled extension.
ExpandRaysLoop(interior_indices, indices_new_interface) ==
    LET d == interior_indices.shape[1]
        n == interior_indices.shape[2]
        p == indices_new_interface.shape[2]
        E(t, i, k) ==
            LET j == indices_new_interface.data[<<i, k>>]
            IN  IF t < d THEN interior_indices.data[<<t, i, j>>]
                ELSE Cast(j, interior_indices.dtype)
    IN  IndexArray(d + 1, n, p, interior_indices.dtype, E)

\* expand_rays adding the new axis last instead of first when d = 0
expand_rays_trailing_axis(interior_indices, indices_new_interface) ==
    LET n == interior_indices.shape[2]
        p == indices_new_interface.shape[2]
        R(i, k, t) == indices_new_interface.data[<<i, k>>]
    IN  IF n # indices_new_interface.shape[1]
        THEN Raise("ValueError")
        ELSE IF interior_indices.shape[1] = 0
        THEN Ok(IndexArray(n, p, 1, indices_new_interface.dtype, R))
        ELSE Ok(ExpandRaysLoop(interior_indices, indices_new_interface))

\* Rays.expand_rays
expand_rays(interior_indices, indices_new_interface) ==
    LET n == interior_indices.shape[2]
        p == indices_new_interface.shape[2]
        R(t, i, k) == indices_new_interface.data[<<i, k>>]
    IN  IF n # indices_new_interface.shape[1]
        THEN Raise("ValueError")
        ELSE IF interior_indices.shape[1] = 0
        THEN Ok(IndexArray(1, n, p, indices_new_interface.dtype, R))
        ELSE Ok(ExpandRaysLoop(interior_indices, indices_new_interface))

-----------------------------------------------------------------------------
(* Capabilities supplied to the solver                                     *)

\* geometry.distance_pairwise(points1, points2): Euclidean distance between
\* every point of points1 and every point of points2.
distance_pairwise(points1, points2) ==
    LET D(i, j) == Abs(Coords[points1[2]][i + 1] - Coords[points2[2]][j + 1])
    IN  Matrix(NumPoints(points1), NumPoints(points2), D)

\* distance / speed, in units of 1/TimeDen
DivideBySpeed(distance, speed) ==
    LET T(i, j) == (distance.data[<<i, j>>] * TimeDen) \div speed[2]
    IN  Matrix(distance.shape[1], distance.shape[2], T)

\* find_minimum_times(time_1, time_2, dtype, dtype_indices): for every
\* (i, k), the minimum over j of time_1[i, j] + time_2[j, k] and the lowest
\* j that reaches it, stored in dtype_indices.
find_minimum_times(time_1, time_2, dtype_idx) ==
    LET n == time_1.shape[1]
        m == time_1.shape[2]
        p == time_2.shape[2]
        Sum(i, j, k) == time_1.data[<<i, j>>] + time_2.data[<<j, k>>]
        Best(i, k) ==
            CHOOSE j \in 0..(m - 1) :
                /\ \A jj \in 0..(m - 1) : Sum(i, j, k) <= Sum(i, jj, k)
                /\ \A jj \in 0..(j - 1) : Sum(i, jj, k) > Sum(i, j, k)
        T(i, k) == Sum(i, Best(i, k), k)
        A(i, k) == Cast(Best(i, k), dtype_idx)
    IN  <<Matrix(n, p, T), IndexMatrix(n, p, dtype_idx, A)>>

-----------------------------------------------------------------------------
(* FermatSolver                                                            *)

\* an empty Cache()
EmptyCache == <<>>

Has(cache, key) == key \in DOMAIN cache

Put(cache, key, value) == (key :> value) @@ cache

\* an activation record of _solve
Frame(path) == [path |-> path, pc |-> "start", res_head |-> <<>>, res_tail |-> <<>>]

Top == stack[Len(stack)]

Pop(stk) == SubSeq(stk, 1, Len(stk) - 1)

\* The stack after a return, with the caller solving its head a second time
\* in place of its tail
ReturnedToHeadAgain(stk, r) ==
    LET rest == Pop(stk)
        caller == rest[Len(rest)]
    IN  IF rest = <<>> THEN <<>>
        ELSE IF caller.pc = "head"
        THEN Pop(rest)
             \o << [caller EXCEPT !.pc = "tail", !.res_head = r],
                   Frame(split_queue(caller.path).val[1]) >>
        ELSE Pop(rest) \o << [caller EXCEPT !.pc = "combine", !.res_tail = r] >>

\* The stack after the innermost _solve has returned r to its caller: the
\* caller either goes on to solve the tail or is ready to combine.
Returned(stk, r) ==
    LET rest == Pop(stk)
        caller == rest[Len(rest)]
    IN  IF rest = <<>> THEN <<>>
        ELSE IF caller.pc = "head"
        THEN Pop(rest)
             \o << [caller EXCEPT !.pc = "tail", !.res_head = r],
                   Frame(split_queue(caller.path).val[2]) >>
        ELSE Pop(rest) \o << [caller EXCEPT !.pc = "combine", !.res_tail = r] >>

\* res after _solve(path) has returned r: solve_no_clean stores the result of
\* the outermost call only.
Stored(stk, r) ==
    IF Len(stk) = 1 THEN Put(res, stk[1].path, r) ELSE res

\* An exception leaves every frame and the top-level call.
Fails(err) ==
    /\ stack' = <<>>
    /\ pending' = {}
    /\ outcome' = [call |-> call, status |-> "raised", err |-> err]
    /\ call' = "idle"
    /\ res' = res

\* consecutive_times forgetting to divide the distance by the speed
consecutive_times_no_division(path, cache, dtype, id) ==
    LET points1 == path[1]
        points2 == path[3]
        key == <<points1, points2>>
        hit == Has(cache, key)
        distance == IF hit THEN cache[key] ELSE distance_pairwise(points1, points2)
        rkey == <<points1, points2>>
        cache1 == IF hit THEN cache ELSE Put(cache, key, distance)
        cache2 == IF ~hit /\ key # rkey
                  THEN Put(cache1, rkey, Transpose(distance)) ELSE cache1
    IN  [cached_distance |-> cache2,
         computed |-> ~hit,
         key |-> key,
         result |-> make_rays_two_interfaces(distance, path, dtype, id)]

\* FermatSolver.consecutive_times: the rays between two consecutive
\* point-sets.  Gives the distance cache after the call, whether
\* distance_pairwise was invoked, and the Rays built (or the error raised).
consecutive_times(path, cache, dtype, id) ==
    LET points1 == path[1]
        speed == path[2]
        points2 == path[3]
        key == <<points1, points2>>
        hit == Has(cache, key)
        distance == IF hit THEN cache[key] ELSE distance_pairwise(points1, points2)
        rkey == <<points1, points2>>
        cache1 == IF hit THEN cache ELSE Put(cache, key, distance)
        cache2 == IF ~hit /\ key # rkey
                  THEN Put(cache1, rkey, Transpose(distance)) ELSE cache1
    IN  [cached_distance |-> cache2,
         computed |-> ~hit,
         key |-> key,
         result |-> make_rays_two_interfaces(DivideBySpeed(distance, speed),
                                             path, dtype, id)]

\* The general case of _solve once head and tail are solved (lines 652-667):
\* minimize over the junction, expand the interior indices of the head, build
\* the Rays of the whole path.
combine(path, res_head, res_tail, dtype, id) ==
    LET found == find_minimum_times(res_head.times, res_tail.times, dtype)
        times == found[1]
        indices_at_interface == found[2]
        indices == expand_rays(interior_indices_of(res_head), indices_at_interface)
    IN  IF num_points_sets(res_tail.fermat_path) # 2 THEN Raise("AssertionError")
        ELSE IF ~indices.ok THEN indices
        ELSE RaysInit(times, indices.val, path, id)

\* Whether a capability (g.distance_pairwise, find_minimum_times) raises when
\* it is invoked; the capabilities are followed failing during the last call
\* of the solver only.
Faults == IF ncalls = MaxCalls THEN BOOLEAN ELSE {FALSE}

\* the general case of _solve keeping a cache entry for a computation that
\* raised
StoreResultOrFailure(cache, path, r) ==
    Put(cache, path, IF r.ok THEN r.val ELSE [id |-> 0, fermat_path |-> path])

\* _solve, line 666: the store is reached only when nothing before it has
\* raised, so a failed computation leaves the cache as it was
StoreResult(cache, path, r) ==
    IF r.ok THEN Put(cache, path, r.val) ELSE cache

\* _solve, line 636: the path is in the cache of sub-path results.
CacheHit ==
    /\ stack # <<>>
    /\ Top.pc = "start"
    /\ Has(cached_result, Top.path)
    /\ LET r == cached_result[Top.path]
       IN  /\ stack' = Returned(stack, r)
           /\ res' = Stored(stack, r)
           /\ solved' = Put(solved, Top.path, r.id)
    /\ UNCHANGED <<paths, dtype_indices, cached_distance, cached_result,
                   num_minimization, num_euc_distance, call, pending, outcome,
                   ncalls, next_id, min_log, dist_log, fx>>

\* _solve, lines 641-642: two point-sets only; the result of
\* consecutive_times is returned as it is.
BaseCase ==
    /\ stack # <<>>
    /\ Top.pc = "start"
    /\ ~Has(cached_result, Top.path)
    /\ Len(Top.path) = 3
    /\ \E fault \in Faults :
         IF fault /\ ~Has(cached_distance, <<Top.path[1], Top.path[3]>>)
         THEN \* g.distance_pairwise raises, after the counter is incremented
              /\ num_euc_distance' = num_euc_distance + 1
              /\ dist_log' = Append(dist_log, <<Top.path[1], Top.path[3]>>)
              /\ Fails("CapabilityError")
              /\ UNCHANGED <<cached_distance, solved, next_id>>
         ELSE LET c == consecutive_times(Top.path, cached_distance, dtype_indices, next_id)
              IN  /\ cached_distance' = c.cached_distance
                  /\ num_euc_distance' = num_euc_distance + (IF c.computed THEN 1 ELSE 0)
                  /\ dist_log' = IF c.computed THEN Append(dist_log, c.key) ELSE dist_log
                  /\ IF c.result.ok
                     THEN /\ stack' = Returned(stack, c.result.val)
                          /\ res' = Stored(stack, c.result.val)
                          /\ solved' = Put(solved, Top.path, c.result.val.id)
                          /\ next_id' = next_id + 1
                          /\ UNCHANGED <<call, pending, outcome>>
                     ELSE /\ Fails(c.result.err)
                          /\ UNCHANGED <<solved, next_id>>
    /\ UNCHANGED <<paths, dtype_indices, cached_result, num_minimization,
                   ncalls, min_log, fx>>

\* _solve, lines 645-647: split at the last interior point-set and solve the
\* head first.
Split ==
    /\ stack # <<>>
    /\ Top.pc = "start"
    /\ ~Has(cached_result, Top.path)
    /\ Len(Top.path) # 3
    /\ LET sp == split_queue(Top.path)
       IN  IF sp.ok
           THEN /\ stack' = Pop(stack) \o << [Top EXCEPT !.pc = "head"],
                                             Frame(sp.val[1]) >>
                /\ UNCHANGED <<res, call, pending, outcome>>
           ELSE Fails(sp.err)
    /\ UNCHANGED <<paths, dtype_indices, cached_distance, cached_result,
                   num_minimization, num_euc_distance, ncalls, next_id,
                   min_log, dist_log, solved, fx>>

\* _solve, lines 652-667: head and tail are solved; combine them, store the
\* result in the cache and return it.
Combine ==
    /\ stack # <<>>
    /\ Top.pc = "combine"
    /\ num_minimization' = num_minimization + 1
    /\ min_log' = Append(min_log, Top.path)
    /\ \E fault \in Faults :
         LET r == IF fault THEN Raise("CapabilityError")
                  ELSE combine(Top.path, Top.res_head, Top.res_tail,
                               dtype_indices, next_id)
         IN  /\ cached_result' = StoreResult(cached_result, Top.path, r)
             /\ IF r.ok
                THEN /\ stack' = Returned(stack, r.val)
                     /\ res' = Stored(stack, r.val)
                     /\ solved' = Put(solved, Top.path, r.val.id)
                     /\ next_id' = next_id + 1
                     /\ UNCHANGED <<call, pending, outcome>>
                ELSE /\ Fails(r.err)
                     /\ UNCHANGED <<solved, next_id>>
    /\ UNCHANGED <<paths, dtype_indices, cached_distance, num_euc_distance,
                   ncalls, dist_log, fx>>

\* clear_cache forgetting the cache of sub-path results
ClearedDistancesOnly ==
    /\ cached_distance' = EmptyCache
    /\ cached_result' = cached_result
    /\ min_log' = <<>>
    /\ dist_log' = <<>>
    /\ solved' = EmptyCache

\* FermatSolver.clear_cache
ClearedCaches ==
    /\ cached_distance' = EmptyCache
    /\ cached_result' = EmptyCache
    /\ min_log' = <<>>
    /\ dist_log' = <<>>
    /\ solved' = EmptyCache

\* A caller invokes solve() or solve_no_clean().
CallSolve(method) ==
    /\ call = "idle"
    /\ ncalls < MaxCalls
    /\ call' = method
    /\ ncalls' = ncalls + 1
    /\ pending' = paths
    /\ outcome' = [call |-> method, status |-> "running", err |-> "none"]
    /\ UNCHANGED <<paths, dtype_indices, res, cached_distance, cached_result,
                   num_minimization, num_euc_distance, stack, next_id,
                   min_log, dist_log, solved, fx>>

\* solve_no_clean, lines 613-614: the loop takes the next path (the order of
\* iteration over the set of paths is not fixed).
LoopNext ==
    /\ call # "idle"
    /\ stack = <<>>
    /\ \E path \in pending :
           /\ pending' = pending \ {path}
           /\ stack' = << Frame(path) >>
    /\ UNCHANGED <<paths, dtype_indices, res, cached_distance, cached_result,
                   num_minimization, num_euc_distance, call, outcome, ncalls,
                   next_id, min_log, dist_log, solved, fx>>

\* solve_no_clean has gone through every path and returns self.res; solve
\* clears the caches before it returns (lines 604-606).
LoopEnd ==
    /\ call # "idle"
    /\ stack = <<>>
    /\ pending = {}
    /\ IF call = "solve"
       THEN ClearedCaches
       ELSE UNCHANGED <<cached_distance, cached_result, min_log, dist_log, solved>>
    /\ outcome' = [call |-> call, status |-> "returned", err |-> "none"]
    /\ call' = "idle"
    /\ UNCHANGED <<paths, dtype_indices, res, num_minimization,
                   num_euc_distance, pending, stack, ncalls, next_id, fx>>

-----------------------------------------------------------------------------
(* The solver under every registered set of paths                          *)

\* The route of an inspection; the paths registered with a solver are
\* stretches of it, so that they share sub-paths.  It visits a pair of
\* point-sets in both directions and a point-set twice in a row.
Routes ==
    { << Points(1), Speed(1), Points(2), Speed(2), Points(2), Speed(1),
         Points(1), Speed(2), Points(3) >> }

\* the stretches of a route between two of its point-sets
Stretches(route) ==
    { SubSeq(route, 2 * a - 1, 2 * b - 1) :
        <<a, b>> \in { ab \in (1..num_points_sets(route)) \X (1..num_points_sets(route)) :
                         ab[1] < ab[2] /\ ab[2] - ab[1] <= MaxInterior + 1 } }

Candidates == UNION { Stretches(route) : route \in Routes }

IdleFx == [op |-> "none"]

SolverInit ==
    /\ res = EmptyCache
    /\ cached_distance = EmptyCache
    /\ cached_result = EmptyCache
    /\ num_minimization = 0
    /\ num_euc_distance = 0
    /\ call = "idle"
    /\ pending = {}
    /\ stack = <<>>
    /\ outcome = [call |-> "__init__", status |-> "returned", err |-> "none"]
    /\ ncalls = 0
    /\ next_id = 1
    /\ min_log = <<>>
    /\ dist_log = <<>>
    /\ solved = EmptyCache

\* settings.UINT, the index type of a solver constructed without one: a fixed
\* type, not derived from the registered paths (here one that cannot hold
\* the index 2)
UINT == [kind |-> "u", width |-> 1]

\* the dtype_indices argument of FermatSolver.__init__ when it is left out
NoDType == [none |-> TRUE]

\* FermatSolver.__init__: the index type the solver uses
IndexTypeUsed(arg) == IF arg = NoDType THEN UINT ELSE arg

\* FermatSolver.__init__(paths, dtype_indices=...)
Init ==
    /\ paths \in { ps \in SUBSET Candidates : Cardinality(ps) \in 1..MaxPaths }
    /\ dtype_indices \in {IndexTypeUsed(arg) : arg \in DTypes \cup {NoDType}}
    /\ SolverInit
    /\ fx = IdleFx

Next ==
    \/ CallSolve("solve")
    \/ CallSolve("solve_no_clean")
    \/ LoopNext
    \/ CacheHit
    \/ BaseCase
    \/ Split
    \/ Combine
    \/ LoopEnd

Spec == Init /\ [][Next]_vars

-----------------------------------------------------------------------------
(* Properties of the solver                                                *)

Range(f) == {f[x] : x \in DOMAIN f}

\* every Rays object the solver holds: results, cached sub-path results and
\* the head and tail results of the running recursion
HeldRays ==
    Range(res) \cup Range(cached_result)
    \cup {stack[t].res_head : t \in {u \in DOMAIN stack : stack[u].pc \in {"tail", "combine"}}}
    \cup {stack[t].res_tail : t \in {u \in DOMAIN stack : stack[u].pc = "combine"}}

\* travel time of one leg: distance between point i of A and point j of B,
\* divided by the speed
LegTime(A, i, speed, B, j) ==
    (Abs(Coords[A[2]][i + 1] - Coords[B[2]][j + 1]) * TimeDen) \div speed[2]

\* every choice of one point in each of the point-sets pts[a..b]
RECURSIVE PointChoices(_, _, _)
PointChoices(pts, a, b) ==
    IF a > b THEN {<<>>}
    ELSE {<<i>> \o c : i \in 0..(NumPoints(pts[a]) - 1), c \in PointChoices(pts, a + 1, b)}

\* total time along the points ix (one per point-set) of a path
RECURSIVE RouteTime(_, _, _)
RouteTime(path, ix, t) ==
    IF t >= Len(ix) THEN 0
    ELSE LegTime(path[2 * t - 1], ix[t], path[2 * t], path[2 * t + 1], ix[t + 1])
         + RouteTime(path, ix, t + 1)

\* times of all routes from point i of the first point-set to point j of the
\* last one
RouteTimes(path, i, j) ==
    LET pts == PathPoints(path)
    IN  {RouteTime(path, <<i>> \o c \o <<j>>, 1) : c \in PointChoices(pts, 2, Len(pts) - 1)}

Least(S) == CHOOSE x \in S : \A y \in S : x <= y

\* the sub-paths of a path: its stretches between two of its point-sets
SubPaths(path) ==
    {SubSeq(path, 2 * a - 1, 2 * b - 1) :
        <<a, b>> \in {ab \in (1..num_points_sets(path)) \X (1..num_points_sets(path)) :
                        ab[1] < ab[2]}}

\* for every path the solver can meet that has an interior point-set, and
\* every start i and end j, the least time over all routes from i to j
MinimalTimes ==
    [path \in {p \in UNION {SubPaths(route) : route \in Routes} : Len(p) >= 5} |->
        [ij \in Idx2(NumPoints(path[1]), NumPoints(path[Len(path)])) |->
            Least(RouteTimes(path, ij[1], ij[2]))]]

\* C1: for every path with at least one interior point-set, the times of the
\* Rays the recursive solver produces are, for every start i and end j, the
\* minimum over every choice of one point per interior point-set of the sum
\* of the leg times.
C1_TimesAreMinimal ==
    \A r \in Range(res) \cup Range(cached_result) :
        Len(r.fermat_path) >= 5 =>
            r.times.data = MinimalTimes[r.fermat_path]

\* a requested path with two interior point-sets is solved, and for some
\* start and end its routes do not all take the same time
C1_Witness ==
    \E path \in DOMAIN res :
        /\ Len(path) = 7
        /\ \E ij \in DOMAIN res[path].times.data :
               /\ Cardinality(RouteTimes(path, ij[1], ij[2])) > 2
               /\ res[path].times.data[ij] = Least(RouteTimes(path, ij[1], ij[2]))

\* C2: every Rays object constructed for a path with d point-sets, n start
\* points and m end points has indices of shape (d, n, m) with
\* indices[0, i, j] = i and indices[d-1, i, j] = j.
C2_EndIndices ==
    \A r \in HeldRays :
        LET pts == PathPoints(r.fermat_path)
            d == Len(pts)
            n == NumPoints(pts[1])
            m == NumPoints(pts[d])
        IN  /\ r.indices.shape = <<d, n, m>>
            /\ \A i \in 0..(n - 1), j \in 0..(m - 1) :
                   /\ r.indices.data[<<0, i, j>>] = i
                   /\ r.indices.data[<<d - 1, i, j>>] = j

\* _solve(path) is entered for a path it has already solved in the current
\* cache lifetime
Resolving(path) ==
    /\ stack # <<>>
    /\ Top.path = path
    /\ Top.pc = "start"
    /\ path \in DOMAIN solved

\* C3: within one cache lifetime, solving a path again (any path the
\* recursion is called on, 3-element paths included) returns the identical
\* Rays object and invokes neither distance_pairwise nor find_minimum_times.
C3_IdenticalObjectOnResolve ==
    [][\A path \in DOMAIN solved :
           Resolving(path) =>
               /\ path \in DOMAIN solved' /\ solved'[path] = solved[path]
               /\ min_log' = min_log
               /\ dist_log' = dist_log]_vars

Count(log, P(_)) == Cardinality({t \in DOMAIN log : P(log[t])})

\* two distinct registered paths have a sub-path in common
SharedSubPath ==
    \E p \in paths, q \in paths : p # q /\ SubPaths(p) \cap SubPaths(q) # {}

\* C4: when two distinct requested paths share a sub-path, within one cache
\* lifetime find_minimum_times is invoked at most once per sub-path and
\* distance_pairwise at most once per pair of point-sets.
C4_ComputedOnce ==
    SharedSubPath =>
        /\ \A t \in DOMAIN min_log :
               LET Same(p) == p = min_log[t] IN Count(min_log, Same) <= 1
        /\ \A t \in DOMAIN dist_log :
               LET SamePair(k) == {k[1], k[2]} = {dist_log[t][1], dist_log[t][2]}
               IN  Count(dist_log, SamePair) <= 1

\* C5: after solve() has returned, res has a Rays for every requested path
\* and both caches are empty.
C5_SolveClearsCaches ==
    (outcome.call = "solve" /\ outcome.status = "returned") =>
        /\ paths \subseteq DOMAIN res
        /\ \A path \in paths : res[path].fermat_path = path
        /\ cached_distance = EmptyCache
        /\ cached_result = EmptyCache

\* solve() has returned the results of two paths, one of which went through
\* the general case, so that both caches had entries to clear
C5_Witness ==
    /\ outcome.call = "solve" /\ outcome.status = "returned"
    /\ Cardinality(paths) = 2
    /\ paths \subseteq DOMAIN res
    /\ \E path \in paths : Len(path) >= 5
    /\ num_minimization > 0 /\ num_euc_distance > 0
    /\ cached_distance = EmptyCache /\ cached_result = EmptyCache

-----------------------------------------------------------------------------
(* FermatPath on its own                                                   *)

\* largest number of interfaces, materials and modes of a Path object
MaxPieces == 3

\* every sequence of length k over S
RECURSIVE SeqsOfLen(_, _)
SeqsOfLen(S, k) ==
    IF k = 0 THEN {<<>>}
    ELSE {Append(q, x) : q \in SeqsOfLen(S, k - 1), x \in S}

\* every FermatPath with k interior point-sets
RECURSIVE PathsWithInterior(_)
PathsWithInterior(k) ==
    IF k = 0 THEN {<<A, v, B>> : A \in PointSets, v \in Speeds, B \in PointSets}
    ELSE {q \o <<v, B>> : q \in PathsWithInterior(k - 1), v \in Speeds, B \in PointSets}

AllPaths == UNION {PathsWithInterior(k) : k \in 0..MaxInterior}

\* odd length of at least 3, point-sets and speeds alternating
IsFermatPath(q) ==
    /\ Len(q) % 2 = 1
    /\ Len(q) >= 3
    /\ \A t \in DOMAIN q : IF t % 2 = 1 THEN q[t] \in PointSets ELSE q[t] \in Speeds

\* materials: the speed of each mode
Materials == { [L |-> 2, T |-> 1], [L |-> 1, T |-> 1] }

Modes == {"L", "T"}

\* the interfaces of a Path with k interfaces: the t-th lies on the point-set
\* t, cyclically
Interfaces(k) == [t \in 1..k |-> [points |-> Points(((t - 1) % Len(Coords)) + 1)]]

\* Path objects, with consistent and with inconsistent counts
RicherPaths ==
    { [interfaces |-> Interfaces(a), materials |-> ms, modes |-> md] :
        a \in 0..MaxPieces,
        ms \in UNION {SeqsOfLen(Materials, b) : b \in 0..MaxPieces},
        md \in UNION {SeqsOfLen(Modes, c) : c \in 0..MaxPieces} }

DoFromPath ==
    /\ fx.op = "none"
    /\ \E path \in RicherPaths :
           fx' = [op |-> "from_path", arg |-> path, out |-> from_path(path)]
    /\ UNCHANGED solverVars

\* split a path and join the two parts again
Rejoined(sp) == IF sp.ok THEN PathAdd(sp.val[1], sp.val[2]) ELSE sp

DoSplitHead ==
    /\ fx.op = "none"
    /\ \E path \in AllPaths :
           fx' = [op |-> "split_head", arg |-> path, out |-> split_head(path),
                  joined |-> Rejoined(split_head(path))]
    /\ UNCHANGED solverVars

DoSplitQueue ==
    /\ fx.op = "none"
    /\ \E path \in AllPaths :
           fx' = [op |-> "split_queue", arg |-> path, out |-> split_queue(path),
                  joined |-> Rejoined(split_queue(path))]
    /\ UNCHANGED solverVars

\* a solver that is never used
IdleSolver ==
    /\ paths = {}
    /\ dtype_indices = [kind |-> "u", width |-> 2]
    /\ SolverInit

PathInit == IdleSolver /\ fx = IdleFx

PathNext == DoFromPath \/ DoSplitHead \/ DoSplitQueue

SpecPath == PathInit /\ [][PathNext]_vars

\* the path from_path is meant to build from k+1 interfaces, k materials and
\* k modes
ExpectedPath(path) ==
    path_pieces(path, Len(path.materials))
    \o << path.interfaces[Len(path.interfaces)].points >>

\* C9: from_path raises whenever the number of materials or of modes is not
\* the number of interfaces minus one; with k+1 interfaces, k materials and
\* k modes (k >= 1) it returns the 2k+1 alternating point-sets and speeds.
C9_FromPathChecksCounts ==
    fx.op = "from_path" =>
        LET k == Len(fx.arg.interfaces) - 1
        IN  IF Len(fx.arg.materials) = k /\ Len(fx.arg.modes) = k
            THEN k >= 1 =>
                   /\ fx.out.ok
                   /\ Len(fx.out.val) = 2 * k + 1
                   /\ fx.out.val = ExpectedPath(fx.arg)
            ELSE ~fx.out.ok

\* C10: split_head and split_queue raise on a path of fewer than 5 elements;
\* otherwise head and tail are valid paths, the head ends with the point-set
\* the tail starts with, the head of split_head and the tail of split_queue
\* have 3 elements, and head + tail is the original path.
C10_SplitAndJoin ==
    fx.op \in {"split_head", "split_queue"} =>
        IF Len(fx.arg) < 5
        THEN ~fx.out.ok
        ELSE /\ fx.out.ok
             /\ LET head == fx.out.val[1]
                    tail == fx.out.val[2]
                IN  /\ IsFermatPath(head) /\ FermatPathNew(head).ok
                    /\ IsFermatPath(tail) /\ FermatPathNew(tail).ok
                    /\ head[Len(head)] = tail[1]
                    /\ fx.op = "split_head" => Len(head) = 3
                    /\ fx.op = "split_queue" => Len(tail) = 3
                    /\ fx.joined.ok
                    /\ fx.joined.val = fx.arg

\* a path with two interior point-sets is split at its first interior
\* point-set into a head of 3 and a tail of 5 elements that join back
C10_Witness ==
    /\ fx.op = "split_head"
    /\ Len(fx.arg) = 7
    /\ fx.out.ok
    /\ Len(fx.out.val[1]) = 3 /\ Len(fx.out.val[2]) = 5
    /\ fx.joined.ok /\ fx.joined.val = fx.arg

-----------------------------------------------------------------------------
(* Angles of the rays at the interfaces                                    *)

\* pi, in degrees
Pi == 180

\* the value None
None == [none |-> TRUE]

\* what a generator yields: one value, or a pair of values
Single(v) == <<v>>

Pair(a, b) == <<a, b>>

\* interface.orientations: the side of the line the normal of every point of
\* the interface points to
Normal(points) == IF points[2] % 2 = 1 THEN 1 ELSE -1

\* points[indices]: the coordinate of the point of each ray
Gather(points, indices, layer) ==
    LET X(i, j) == Coords[points[2]][indices.data[<<layer, i, j>>] + 1]
    IN  Matrix(indices.shape[2], indices.shape[3], X)

\* g.to_gcs and g.spherical_coordinates of the legs from the points `origins`
\* of an interface to the points `ends`: the polar angle theta between each
\* leg and the normal, and the length r of the leg
LegsSpherical(origins, ends, normal) ==
    LET Theta(i, j) ==
            IF (ends.data[<<i, j>>] - origins.data[<<i, j>>]) * normal > 0 THEN 0 ELSE Pi
        R(i, j) == Abs(ends.data[<<i, j>>] - origins.data[<<i, j>>])
    IN  [theta |-> Matrix(origins.shape[1], origins.shape[2], Theta),
         r |-> Matrix(origins.shape[1], origins.shape[2], R)]

\* np.pi - theta
PiMinus(theta) ==
    LET F(i, j) == Pi - theta.data[<<i, j>>]
    IN  Matrix(theta.shape[1], theta.shape[2], F)

\* what is yielded for an interface: flag is the normal-side flag of the
\* interface, idx its position, other the position of the adjacent interface
\* the leg goes to or comes from (lines 302-346 and 394-438)
AngleElement(rays, interfaces, idx, other, flag, return_distances) ==
    IF flag = "None"
    THEN IF return_distances THEN Pair(None, None) ELSE Single(None)
    ELSE LET leg_origins == Gather(interfaces[idx + 1].points, rays.indices, idx)
             leg_ends == Gather(interfaces[other + 1].points, rays.indices, other)
             spher == LegsSpherical(leg_origins, leg_ends,
                                    Normal(interfaces[idx + 1].points))
             alpha == IF flag = "True" THEN spher.theta ELSE PiMinus(spher.theta)
         IN  IF return_distances THEN Pair(alpha, spher.r) ELSE Single(spher.r)

\* the placeholder yielded where there is no leg
NoLeg(return_distances) ==
    IF return_distances THEN Pair(None, None) ELSE Single(None)

\* get_outgoing_angles yielding the placeholder before the angles
get_outgoing_angles_placeholder_first(rays, interfaces, return_distances) ==
    << NoLeg(return_distances) >>
    \o [t \in 1..(Len(interfaces) - 1) |->
          AngleElement(rays, interfaces, t - 1, t,
                       interfaces[t].are_normals_on_out_rays_side,
                       return_distances)]

\* Rays.get_outgoing_angles: everything the generator yields, in order
get_outgoing_angles(rays, interfaces, return_distances) ==
    [t \in 1..(Len(interfaces) - 1) |->
        AngleElement(rays, interfaces, t - 1, t,
                     interfaces[t].are_normals_on_out_rays_side,
                     return_distances)]
    \o << NoLeg(return_distances) >>

\* Rays.get_incoming_angles: everything the generator yields, in order
get_incoming_angles(rays, interfaces, return_distances) ==
    << NoLeg(return_distances) >>
    \o [t \in 1..(Len(interfaces) - 1) |->
          AngleElement(rays, interfaces, t, t - 1,
                       interfaces[t + 1].are_normals_on_inc_rays_side,
                       return_distances)]

\* a boolean array of shape (n, m)
BoolMatrix(n, m, f(_, _)) ==
    [shape |-> <<n, m>>, dtype |-> "bool",
     data |-> [ij \in Idx2(n, m) |-> f(ij[1], ij[2])]]

\* the loop of gone_through_extreme_points over the middle point-sets, from
\* layer d on: out is or-ed with "interior index is 0" and with "interior
\* index is len(points) - 1"
RECURSIVE ExtremeLoop(_, _, _, _)
ExtremeLoop(out, interior_indices, middle_points, d) ==
    IF d >= Len(middle_points) THEN out
    ELSE LET First(i, j) ==
                 out.data[<<i, j>>] \/ interior_indices.data[<<d, i, j>>] = 0
             out1 == BoolMatrix(out.shape[1], out.shape[2], First)
             Last(i, j) ==
                 \/ out1.data[<<i, j>>]
                 \/ interior_indices.data[<<d, i, j>>]
                      = NumPoints(middle_points[d + 1]) - 1
             out2 == BoolMatrix(out.shape[1], out.shape[2], Last)
         IN  ExtremeLoop(out2, interior_indices, middle_points, d + 1)

\* gone_through_extreme_points testing the first point of each middle
\* point-set only
gone_through_first_points(rays) ==
    LET inner == interior_indices_of(rays)
        Zero(i, j) == \E d \in 0..(inner.shape[1] - 1) : inner.data[<<d, i, j>>] = 0
    IN  BoolMatrix(rays.indices.shape[2], rays.indices.shape[3], Zero)

\* Rays.gone_through_extreme_points
gone_through_extreme_points(rays) ==
    LET No(i, j) == FALSE
        pts == PathPoints(rays.fermat_path)
        middle_points == SubSeq(pts, 2, Len(pts) - 1)
    IN  ExtremeLoop(BoolMatrix(rays.indices.shape[2], rays.indices.shape[3], No),
                    interior_indices_of(rays), middle_points, 0)

-----------------------------------------------------------------------------
(* Rays on its own                                                         *)

\* largest number of interfaces handed to the angle generators
MaxInterfaces == 3

\* largest n, m and p of the arrays handed to expand_rays
MaxDim == 2

\* largest d of the arrays handed to expand_rays
MaxDepth == 2

Wide == [kind |-> "u", width |-> 2]

Flags == {"True", "False", "None"}

\* the path through the point-sets of k interfaces, at speed 1
RECURSIVE PathThrough(_)
PathThrough(k) ==
    IF k = 1 THEN << Interfaces(1)[1].points >>
    ELSE PathThrough(k - 1) \o << Speed(1), Interfaces(k)[k].points >>

\* Rays along PathThrough(k) whose interior indices are shifted by e
RaysThrough(k, e) ==
    LET path == PathThrough(k)
        pts == PathPoints(path)
        n == NumPoints(pts[1])
        m == NumPoints(pts[k])
        Z(i, j) == 0
        I(t, i, j) == (i + j + t + e) % NumPoints(pts[t + 2])
    IN  RaysInit(Matrix(n, m, Z), IndexArray(k - 2, n, m, Wide, I), path, 0).val

\* k interfaces with the given normal-side flags
FlaggedInterfaces(inc, out) ==
    [t \in DOMAIN out |->
        [points |-> Interfaces(Len(out))[t].points,
         are_normals_on_inc_rays_side |-> inc[t],
         are_normals_on_out_rays_side |-> out[t]]]

AtLeast2(k) == IF k < 2 THEN 2 ELSE k

DoOutgoingAngles ==
    /\ fx.op = "none"
    /\ \E k \in 0..MaxInterfaces, e \in 0..1, rd \in BOOLEAN :
         \E out \in SeqsOfLen(Flags, k) :
           LET interfaces == FlaggedInterfaces([t \in 1..k |-> "None"], out)
           IN  fx' = [op |-> "get_outgoing_angles",
                      interfaces |-> interfaces,
                      return_distances |-> rd,
                      rays |-> RaysThrough(AtLeast2(k), e),
                      out |-> get_outgoing_angles(RaysThrough(AtLeast2(k), e),
                                                  interfaces, rd)]
    /\ UNCHANGED solverVars

DoIncomingAngles ==
    /\ fx.op = "none"
    /\ \E k \in 0..MaxInterfaces, e \in 0..1, rd \in BOOLEAN :
         \E inc \in SeqsOfLen(Flags, k) :
           LET interfaces == FlaggedInterfaces(inc, [t \in 1..k |-> "None"])
           IN  fx' = [op |-> "get_incoming_angles",
                      interfaces |-> interfaces,
                      return_distances |-> rd,
                      rays |-> RaysThrough(AtLeast2(k), e),
                      out |-> get_incoming_angles(RaysThrough(AtLeast2(k), e),
                                                  interfaces, rd)]
    /\ UNCHANGED solverVars

DoExpandRays ==
    /\ fx.op = "none"
    /\ \E d \in 0..MaxDepth, n \in 1..MaxDim, m \in 1..MaxDim, p \in 1..MaxDim,
          nn \in 1..MaxDim, a \in 0..1, b \in 0..1, c \in 0..1, e \in 0..1,
          aa \in 0..1, bb \in 0..1, ee \in 0..1 :
           LET I(t, i, j) == (a * i + b * j + c * t + e) % (MaxDim + 1)
               N(i, k) == (aa * i + bb * k + ee) % m
               interior_indices == IndexArray(d, n, m, Wide, I)
               indices_new_interface == IndexMatrix(nn, p, Wide, N)
           IN  fx' = [op |-> "expand_rays",
                      interior_indices |-> interior_indices,
                      indices_new_interface |-> indices_new_interface,
                      out |-> expand_rays(interior_indices, indices_new_interface)]
    /\ UNCHANGED solverVars

\* a path of k point-sets whose interior point-sets have three points
RECURSIVE PathInside(_)
PathInside(k) ==
    IF k = 2 THEN << Points(1), Speed(1), Points(3) >>
    ELSE << Points(1), Speed(1), Points(2), Speed(1) >>
         \o SubSeq(PathInside(k - 1), 3, 2 * k - 3)

\* Rays along PathInside(k) whose interior indices follow a, b, c, e
RaysAlong(k, a, b, c, e) ==
    LET path == FermatPathNew(PathInside(k)).val
        pts == PathPoints(path)
        n == NumPoints(pts[1])
        m == NumPoints(pts[k])
        Z(i, j) == 0
        I(t, i, j) == (a * i + (b + c * t) * j + e) % NumPoints(pts[t + 2])
    IN  RaysInit(Matrix(n, m, Z), IndexArray(k - 2, n, m, Wide, I), path, 0).val

DoExtremePoints ==
    /\ fx.op = "none"
    /\ \E k \in 2..(MaxInterfaces + 1), a \in 0..1, b \in 0..1, c \in 0..1, e \in 0..2 :
           fx' = [op |-> "gone_through_extreme_points",
                  rays |-> RaysAlong(k, a, b, c, e),
                  out |-> gone_through_extreme_points(RaysAlong(k, a, b, c, e))]
    /\ UNCHANGED solverVars

RaysInit0 == IdleSolver /\ fx = IdleFx

RaysNext ==
    DoExpandRays \/ DoOutgoingAngles \/ DoIncomingAngles \/ DoExtremePoints

SpecRays == RaysInit0 /\ [][RaysNext]_vars

\* C6: expand_rays of interior_indices (d, n, m) and indices_new_interface
\* (n, p) is an array E of shape (d+1, n, p) with, for j =
\* indices_new_interface[i, k], E[t, i, k] = interior_indices[t, i, j] for
\* t < d and E[d, i, k] = j; for d = 0 that is indices_new_interface under
\* one leading axis of size 1.
C6_ExpandRays ==
    (fx.op = "expand_rays"
        /\ fx.interior_indices.shape[2] = fx.indices_new_interface.shape[1]) =>
        LET d == fx.interior_indices.shape[1]
            n == fx.interior_indices.shape[2]
            p == fx.indices_new_interface.shape[2]
        IN  /\ fx.out.ok
            /\ fx.out.val.shape = <<d + 1, n, p>>
            /\ DOMAIN fx.out.val.data = Idx3(d + 1, n, p)
            /\ \A i \in 0..(n - 1), k \in 0..(p - 1) :
                   LET j == fx.indices_new_interface.data[<<i, k>>]
                   IN  /\ \A t \in 0..(d - 1) :
                              fx.out.val.data[<<t, i, k>>]
                                  = fx.interior_indices.data[<<t, i, j>>]
                       /\ fx.out.val.data[<<d, i, k>>] = j

\* two layers of interior indices are expanded along new indices that are
\* not the identity, and some ray takes a prefix another end point had
C6_Witness ==
    /\ fx.op = "expand_rays"
    /\ fx.interior_indices.shape = <<2, 2, 2>>
    /\ fx.indices_new_interface.shape = <<2, 2>>
    /\ fx.out.ok
    /\ fx.out.val.shape = <<3, 2, 2>>
    /\ fx.indices_new_interface.data[<<0, 0>>] = 1
    /\ fx.interior_indices.data[<<0, 0, 1>>] # fx.interior_indices.data[<<0, 0, 0>>]
    /\ fx.out.val.data[<<0, 0, 0>>] = fx.interior_indices.data[<<0, 0, 1>>]
    /\ fx.out.val.data[<<2, 0, 0>>] = 1

IsAngles == fx.op \in {"get_outgoing_angles", "get_incoming_angles"}

WithLeg ==
    IF fx.op = "get_outgoing_angles" THEN 1..(Len(fx.interfaces) - 1)
    ELSE 2..Len(fx.interfaces)

FlagAt(t) ==
    IF fx.op = "get_outgoing_angles"
    THEN fx.interfaces[t].are_normals_on_out_rays_side
    ELSE fx.interfaces[t].are_normals_on_inc_rays_side

\* theta and r of the legs at the interface at position t
LegsAt(t) ==
    LET other == IF fx.op = "get_outgoing_angles" THEN t + 1 ELSE t - 1
    IN  LegsSpherical(Gather(fx.interfaces[t].points, fx.rays.indices, t - 1),
                      Gather(fx.interfaces[other].points, fx.rays.indices, other - 1),
                      Normal(fx.interfaces[t].points))

\* C8: an interface with a leg yields None if its flag is None, else the
\* angle (theta if the flag is true, pi - theta if it is false): alone when
\* return_distances is False, paired with the leg length when it is True.
C8_AngleYielded ==
    IsAngles =>
        \A t \in WithLeg :
            LET alpha == IF FlagAt(t) = "True" THEN LegsAt(t).theta
                         ELSE PiMinus(LegsAt(t).theta)
            IN  IF FlagAt(t) = "None"
                THEN fx.out[t] = NoLeg(fx.return_distances)
                ELSE IF fx.return_distances
                THEN fx.out[t] = Pair(alpha, LegsAt(t).r)
                ELSE fx.out[t] = Single(alpha)

IsExtreme == fx.op = "gone_through_extreme_points"

\* C11: gone_through_extreme_points returns an n x m boolean grid whose entry
\* (i, j) is True exactly when, for at least one interior point-set k of the
\* path, indices[k, i, j] is 0 or the size of that point-set minus 1; for a
\* path with no interior point-set every entry is False.
C11_ExtremePoints ==
    IsExtreme =>
        LET pts == PathPoints(fx.rays.fermat_path)
            d == Len(pts)
            n == NumPoints(pts[1])
            m == NumPoints(pts[d])
        IN  /\ fx.out.shape = <<n, m>>
            /\ DOMAIN fx.out.data = Idx2(n, m)
            /\ \A ij \in Idx2(n, m) :
                   /\ fx.out.data[ij] \in BOOLEAN
                   /\ fx.out.data[ij] <=>
                        \E k \in 1..(d - 2) :
                            \/ fx.rays.indices.data[<<k, ij[1], ij[2]>>] = 0
                            \/ fx.rays.indices.data[<<k, ij[1], ij[2]>>]
                                 = NumPoints(pts[k + 1]) - 1

\* rays through two interior point-sets: one ray is marked for the second
\* interior point-set only, where it goes through the last point, and one ray
\* through no extreme point is not marked
C11_Witness ==
    /\ IsExtreme
    /\ Len(PathPoints(fx.rays.fermat_path)) = 4
    /\ \E ij \in DOMAIN fx.out.data :
           /\ fx.out.data[ij]
           /\ fx.rays.indices.data[<<1, ij[1], ij[2]>>] = 1
           /\ fx.rays.indices.data[<<2, ij[1], ij[2]>>] = 2
    /\ \E ij \in DOMAIN fx.out.data : ~fx.out.data[ij]

-----------------------------------------------------------------------------
(* Further properties of the solver                                        *)

\* C12: a solver constructed without an explicit index type never holds a
\* Rays object whose index type cannot index every point-set of its path (a
\* point-set with more points than the type has values): either the type
\* fits, or building the indices has failed with a type error.
C12_IndexTypeFitsOrFails ==
    dtype_indices = UINT =>
        \A r \in HeldRays :
            \A P \in Range(PathPoints(r.fermat_path)) :
                NumPoints(P) <= Pow2(r.indices.dtype.width)

\* C13: once the base case has computed the distances of two different
\* point-sets A and B, the distance cache holds the matrix under (A, B) and
\* its transpose under (B, A), and in the same cache lifetime the distance
\* capability is not invoked for (B, A).
C13_SymmetricDistanceCache ==
    /\ \A key \in DOMAIN cached_distance :
           /\ <<key[2], key[1]>> \in DOMAIN cached_distance
           /\ cached_distance[<<key[2], key[1]>>] = Transpose(cached_distance[key])
    /\ \A t \in DOMAIN dist_log, u \in DOMAIN dist_log :
           dist_log[t][1] # dist_log[t][2] =>
               dist_log[u] # <<dist_log[t][2], dist_log[t][1]>>

\* C14: after solve_no_clean() has returned, the distance cache is populated
\* and the sub-path cache holds a Rays object for every path the recursion
\* was invoked on: the requested paths and every head and tail, 3-element
\* paths included.
C14_CachesLeftPopulated ==
    (outcome.call = "solve_no_clean" /\ outcome.status = "returned") =>
        /\ cached_distance # EmptyCache
        /\ paths \subseteq DOMAIN solved
        /\ \A path \in DOMAIN solved :
               /\ Has(cached_result, path)
               /\ cached_result[path].fermat_path = path

\* a step in which the running solve fails
FailureStep == outcome.status = "running" /\ outcome'.status = "raised"

\* C15: a step in which the computation of a path fails leaves the sub-path
\* cache as it was, with no entry for the failed path nor for the paths
\* being solved around it; and after every step each key of the sub-path
\* cache maps to the Rays object of that path whose computation completed.
C15_FailureLeavesNoEntry ==
    [][/\ FailureStep =>
              /\ cached_result' = cached_result
              /\ \A t \in DOMAIN stack : ~Has(cached_result', stack[t].path)
       /\ \A path \in DOMAIN cached_result' :
              /\ cached_result'[path].fermat_path = path
              /\ Has(solved', path)
              /\ solved'[path] = cached_result'[path].id]_vars

\* the minimisation of a path has raised while the sub-path cache held the
\* results of paths solved before it: the cache has no entry for that path
C15_Witness ==
    /\ outcome.status = "raised"
    /\ outcome.err = "CapabilityError"
    /\ cached_result # EmptyCache
    /\ min_log # <<>>
    /\ ~Has(cached_result, min_log[Len(min_log)])

HeadOf(path) == split_queue(path).val[1]

TailOf(path) == split_queue(path).val[2]

\* the paths minimised when a path is solved from an empty cache: its
\* prefixes with one interior point-set, two, ..., all of them
PrefixesByLength(path) ==
    [t \in 1..(num_points_sets(path) - 2) |-> SubSeq(path, 1, 2 * t + 3)]

\* a solver with one path, during and after its first call
FirstSolveOfOnePath ==
    /\ Cardinality(paths) = 1
    /\ ncalls = 1

\* the minimisations of the first call are the first ones of
\* PrefixesByLength, and all of them once the call has returned
MinimizedByPrefix ==
    FirstSolveOfOnePath =>
        LET path == CHOOSE q \in paths : TRUE
            k == num_points_sets(path) - 2
        IN  /\ num_minimization <= k
            /\ outcome.status = "returned" => num_minimization = k
            /\ ~(outcome.call = "solve" /\ outcome.status = "returned") =>
                   min_log = SubSeq(PrefixesByLength(path), 1, num_minimization)

\* C16: the recursion solves the head of a path, then its tail, and only with
\* both results invokes the minimisation of the path; the cache entry of the
\* path is stored in the step of that combination, not before.  A path with
\* k interior point-sets solved from an empty cache takes exactly k
\* minimisations, in order of increasing prefix length.
C16_HeadTailThenMinimize ==
    [][/\ \A t \in DOMAIN stack' :
              /\ stack'[t].pc = "head" =>
                     /\ t < Len(stack')
                     /\ stack'[t + 1].path = HeadOf(stack'[t].path)
              /\ stack'[t].pc = "tail" =>
                     /\ stack'[t].res_head.fermat_path = HeadOf(stack'[t].path)
                     /\ t + 1 = Len(stack')
                     /\ stack'[t + 1].path = TailOf(stack'[t].path)
              /\ stack'[t].pc = "combine" =>
                     /\ stack'[t].res_head.fermat_path = HeadOf(stack'[t].path)
                     /\ stack'[t].res_tail.fermat_path = TailOf(stack'[t].path)
       /\ Len(min_log') > Len(min_log) =>
              /\ Top.pc = "combine"
              /\ Has(solved, HeadOf(Top.path)) /\ Has(solved, TailOf(Top.path))
              /\ ~Has(cached_result, Top.path)
              /\ min_log' = Append(min_log, Top.path)
       /\ \A path \in DOMAIN cached_result' \ DOMAIN cached_result :
              /\ Top.pc = "combine" /\ path = Top.path
              /\ min_log' = Append(min_log, path)
       /\ MinimizedByPrefix']_vars

\* a path with two interior point-sets has been solved from an empty cache
\* by two minimisations, of its 5-element prefix and then of itself
C16_Witness ==
    /\ FirstSolveOfOnePath
    /\ outcome.call = "solve_no_clean" /\ outcome.status = "returned"
    /\ \E path \in paths :
           /\ Len(path) = 7
           /\ min_log = << SubSeq(path, 1, 5), path >>
    /\ num_minimization = 2

\* the point indices of the ray (i, j) of a Rays object, one per point-set
IndexPath(r, i, j) ==
    [t \in 1..num_points_sets(r.fermat_path) |-> r.indices.data[<<t - 1, i, j>>]]

\* C17: for every solved path and every (i, j), each index indices[k, i, j]
\* is a valid index of the k-th point-set and the leg times between the
\* points indices[k, i, j] and indices[k+1, i, j], summed over the path,
\* equal times[i, j].
C17_IndicesRealiseTimes ==
    \A r \in Range(res) \cup Range(cached_result) :
        \A ij \in DOMAIN r.times.data :
            LET pts == PathPoints(r.fermat_path)
                ix == IndexPath(r, ij[1], ij[2])
            IN  /\ \A t \in DOMAIN pts : ix[t] \in 0..(NumPoints(pts[t]) - 1)
                /\ RouteTime(r.fermat_path, ix, 1) = r.times.data[ij]

=============================================================================
